---- MODULE Spec2Model ----
(***************************************************************************)
(* The training driver of src/bin/training/train.py (function main): the   *)
(* step/epoch loop, checkpoint timing, best-score tracking, early          *)
(* stopping, learning-rate decay and the one-time conversion to SGD.       *)
(*                                                                         *)
(* The collaborators that live outside train.py (Dataset, Updater,         *)
(* Controller, eval_word/eval_char/eval_phone, save_checkpoint and         *)
(* load_checkpoint) are modelled by their contracts: what they return is   *)
(* an input chosen with \E, and each of them may raise.                    *)
(***************************************************************************)
EXTENDS Integers, Sequences, FiniteSets, TLC

\* ------------------------------------------------------------ bounds ----
MaxEpoch == 2          \* num_epoch, eval_start_epoch, convert_to_sgd_epoch range over 1..MaxEpoch
MaxPatience == 2       \* not_improved_patient_epoch ranges over 0..MaxPatience
MaxBatches == 2        \* an epoch delivers is_new_epoch after at most MaxBatches updates
MaxGpus == 1           \* --ngpus ranges over 0..MaxGpus
NumEvalSets == 1       \* len(args.eval_sets)
MaxDrop == 2           \* dev metrics range over (100 - MaxDrop)..(100 + 1)
LearningRateInit == 64 \* config['learning_rate'], in units of the smallest rate
DecayStartEpoch == 1   \* config['decay_start_epoch']
MaxPrintStep == 2      \* config['print_step'] ranges over 1..MaxPrintStep

\* ------------------------------------------------- program constants ----
MetricDevBestInit == 100   \* train.py:221  metric_dev_best = 100
EpochInit == 1             \* train.py:219  epoch, step = 1, 0
StepInit == 0              \* train.py:219
NgpusDefault == 0          \* train.py:38   default=0
Unbound == -1              \* a local name that no assignment has bound yet

\* ------------------------------------------------------- input sets ----
Metrics == (MetricDevBestInit - MaxDrop)..(MetricDevBestInit + 1)

\* label types: 'word', one containing 'character', one containing 'phone',
\* and one that no branch of lines 360-388 recognizes
LabelTypes == {"word", "character_capital_divide", "phone61", "kanji"}

Configs ==
    [num_epoch : 1..MaxEpoch,
     eval_start_epoch : 1..MaxEpoch,
     not_improved_patient_epoch : 0..MaxPatience,
     convert_to_sgd_epoch : 1..MaxEpoch,
     label_type : LabelTypes,
     optimizer : {"adam"},
     decay_type : {"per_epoch", "compare_metric"},
     decay_start_epoch : {DecayStartEpoch},
     decay_patient_epoch : {1}]

NoCheckpoint == [epoch |-> 0, step |-> 0, learning_rate |-> 0, metric_dev_best |-> 0]

\* no decay_lr call at this boundary yet
NoCall == [epoch |-> 0, value |-> Unbound, ret |-> 0]

VARIABLES
    config,             \* the loaded configuration (lines 79-88), read-only
    ngpus,              \* args.ngpus
    pc,                 \* the driver's position in main()
    epoch, step, learning_rate, metric_dev_best,   \* lines 219-221 / 243
    not_improved_epoch, \* line 299
    is_new_epoch,       \* line 304
    metric_dev,         \* the local compared on line 390 (Unbound until assigned)
    optimizer,          \* model.module.optimizer: which optimizer is attached
    lr_controller,      \* the Controller's own state (line 276)
    saved,              \* the last checkpoint in save_path (NoCheckpoint if none)
    complete,           \* how many times this run wrote the COMPLETE file
    batches,            \* updates done in the current epoch
    error,              \* what aborted the run ("none" while it runs)
    exit_by,            \* which break left the loop ("none" while it runs)
    n_saved,            \* checkpoints written by this run
    n_saved_boundary,   \* checkpoints written at the current epoch boundary
    n_decay,            \* decay_lr calls at the current epoch boundary
    n_test,             \* held-out sets evaluated at the current epoch boundary
    entry,              \* best, rate, optimizer and count as the current boundary found them
    dev_eval,           \* what the dev-set evaluator returned at this boundary
    restarted,          \* whether this run was launched with --saved_model_path
    obs,                \* the run's state at each epoch start since the last save
    ref,                \* obs of the run that wrote the restored checkpoint
    replayed,           \* the resumed run's states at each epoch start, while ref has more
    print_step,         \* config['print_step'] as line 93 leaves it
    accumulated,        \* updates added to loss_train_mean and acc_train_mean since they were last zero
    reported,           \* whether the last update ran lines 311-340 (dev batch and reporter.step)
    n_convert,          \* set_optimizer('sgd', ...) calls made by this run (line 465)
    sgd_init,           \* learning_rate_init given to the last of them (Unbound before one)
    decay_call          \* epoch, value and return of this boundary's decay_lr call

vars == <<config, ngpus, pc, epoch, step, learning_rate, metric_dev_best,
          not_improved_epoch, is_new_epoch, metric_dev, optimizer,
          lr_controller, saved, complete, batches, error, exit_by,
          n_saved, n_saved_boundary, n_decay, n_test, entry,
          dev_eval, restarted, obs, ref, replayed,
          print_step, accumulated, reported, n_convert, sgd_init, decay_call>>

\* ----------------------------------------------- the driver's tests ----
\* an off-by-one warm-up test
InWarmupInclusive(e, c) == e <= c.eval_start_epoch

\* a warm-up test with the comparison turned around
InWarmupInverted(e, c) == e > c.eval_start_epoch

\* a warm-up test that is never true
InWarmupNever(e, c) == FALSE

\* a warm-up test that is always true
InWarmupAlways(e, c) == TRUE

\* line 352: if epoch < config['eval_start_epoch']
InWarmup(e, c) == e < c.eval_start_epoch

\* a non-strict comparison with the best score
ImprovedOrEqual(m, best) == m <= best

\* a comparison that takes any different score for a better one
Changed(m, best) == m # best

\* a comparison that takes a higher score for a better one
Worse(m, best) == m > best

\* line 390: if metric_dev < metric_dev_best
Improved(m, best) == m < best

\* a patience test that also fires past the threshold
EarlyStopAtLeast(count, c) == count >= c.not_improved_patient_epoch

\* a patience test that fires at every count up to the threshold
EarlyStopWithin(count, c) == count <= c.not_improved_patient_epoch

\* line 438: if not_improved_epoch == config['not_improved_patient_epoch']
EarlyStop(count, c) == count = c.not_improved_patient_epoch

\* a conversion test that stays true after the configured epoch
ConvertNowOrLater(e, c) == e >= c.convert_to_sgd_epoch

\* line 463: if epoch == config['convert_to_sgd_epoch']
ConvertNow(e, c) == e = c.convert_to_sgd_epoch

\* a last-epoch test that only fires past num_epoch
LastEpochPast(e, c) == e > c.num_epoch

\* line 481: if epoch == config['num_epoch']
LastEpoch(e, c) == e = c.num_epoch

\* a word test that takes every label without 'character' or 'phone' in it
IsWordOrOther(label) ==
    label \notin {"character", "character_capital_divide", "phone", "phone61"}

\* line 360: config['label_type'] == 'word'
IsWord(label) == label = "word"

\* line 369: 'character' in config['label_type']
HasCharacter(label) == label \in {"character", "character_capital_divide"}

\* line 378: 'phone' in config['label_type']
HasPhone(label) == label \in {"phone", "phone61"}

\* a loop that catches what its calls raise and carries on
AfterCallSwallow(raised, next) == next

\* a loop that catches what its calls raise and fetches the next batch
AfterCallRetry(raised, next) == IF raised THEN "train" ELSE next

\* lines 302-499 hold no try/except: a raise inside the loop leaves main()
\* at once, a normal return goes on to the next statement.
AfterCall(raised, next) == IF raised THEN "aborted" ELSE next

\* lines 91-93: if args.ngpus > 1: config['print_step'] //= args.ngpus
EffectivePrintStep(p, n) == IF n > 1 THEN p \div n ELSE p

\* line 310: if (step + 1) % config['print_step'] == 0
ReportNow(s, p) == (s + 1) % p = 0

\* line 341: step += args.ngpus
NextStep(s, n) == s + n

\* a checkpoint stamped with the epoch that is about to start
CheckpointNextEpoch(e, s, lr, best) ==
    [epoch |-> e + 1, step |-> s, learning_rate |-> lr, metric_dev_best |-> best]

\* lines 354-356 and 396-398: save_checkpoint(save_path, epoch, step,
\* learning_rate, metric_dev_best) stores the four scalars it is given.
Checkpoint(e, s, lr, best) ==
    [epoch |-> e, step |-> s, learning_rate |-> lr, metric_dev_best |-> best]

\* lines 361, 370, 379: the name each branch binds the evaluator's error
\* rate to.  eval_word returns (wer, _), eval_char (wer, cer, _), eval_phone
\* (per, _); the phone branch binds per_dev_epoch and leaves metric_dev as
\* it was.
BindMetricDev(label, ret, old) ==
    IF IsWord(label) THEN ret.wer
    ELSE IF HasCharacter(label) THEN ret.cer
    ELSE old

\* What the evaluator of a label type can return.
NoEval == [wer |-> Unbound, cer |-> Unbound, per |-> Unbound]

EvalReturns(label) ==
    IF IsWord(label)
      THEN {[wer |-> m, cer |-> Unbound, per |-> Unbound] : m \in Metrics}
    ELSE IF HasCharacter(label)
      THEN {[wer |-> w, cer |-> m, per |-> Unbound] :
                w \in {MetricDevBestInit - MaxDrop, MetricDevBestInit + 1},
                m \in Metrics}
    ELSE {[wer |-> Unbound, cer |-> Unbound, per |-> m] : m \in Metrics}

\* The error rate of the configured granularity in an evaluator's return.
ErrorRate(label, ret) ==
    IF IsWord(label) THEN ret.wer
    ELSE IF HasCharacter(label) THEN ret.cer
    ELSE ret.per

\* best, rate, optimizer and count at one moment
Snapshot(best, lr, opt, count) ==
    [best |-> best, lr |-> lr, opt |-> opt, count |-> count]

\* ------------------------------------------ learning-rate controller ----
\* Controller(learning_rate_init, ..., best_value=metric_dev_best), line 276
NewController(best) == [best_value |-> best, not_improved |-> 0]

\* the decay rule: new rate = old rate * decay_rate (decay_rate = 1/2)
Decayed(lr) == lr \div 2

\* Controller.decay_lr(optimizer, learning_rate, epoch, value), line 449:
\* unchanged before decay_start_epoch; then either a decay every epoch, or
\* a decay after decay_patient_epoch epochs without improvement on the best
\* value the controller has seen.
DecayLr(ctrl, lr, e, value, c) ==
    IF e < c.decay_start_epoch THEN [lr |-> lr, ctrl |-> ctrl]
    ELSE IF c.decay_type = "per_epoch" THEN [lr |-> Decayed(lr), ctrl |-> ctrl]
    ELSE IF value < ctrl.best_value
      THEN [lr |-> lr, ctrl |-> [best_value |-> value, not_improved |-> 0]]
    ELSE IF ctrl.not_improved + 1 = c.decay_patient_epoch
      THEN [lr |-> Decayed(lr), ctrl |-> [ctrl EXCEPT !.not_improved = 0]]
    ELSE [lr |-> lr, ctrl |-> [ctrl EXCEPT !.not_improved = @ + 1]]

\* -------------------------------------------------------------- Init ----
\* lines 90-95, 165-221 (a fresh run: --model_save_path) and 275-300, for
\* --ngpus in gpus and a configured print_step in steps
Start(gpus, steps) ==
    /\ config \in Configs
    /\ ngpus \in gpus
    /\ \E p \in steps : print_step = EffectivePrintStep(p, ngpus)
    /\ accumulated = 0
    /\ reported = FALSE
    /\ n_convert = 0
    /\ sgd_init = Unbound
    /\ decay_call = NoCall
    /\ pc = "train"
    /\ epoch = EpochInit
    /\ step = StepInit
    /\ learning_rate = LearningRateInit
    /\ metric_dev_best = MetricDevBestInit
    /\ not_improved_epoch = 0
    /\ is_new_epoch = FALSE
    /\ metric_dev = Unbound
    /\ optimizer = config.optimizer
    /\ lr_controller = NewController(MetricDevBestInit)
    /\ saved = NoCheckpoint
    /\ complete = 0
    /\ batches = 0
    /\ error = "none"
    /\ exit_by = "none"
    /\ n_saved = 0
    /\ n_saved_boundary = 0
    /\ n_decay = 0
    /\ n_test = 0
    /\ entry = Snapshot(MetricDevBestInit, LearningRateInit, config.optimizer, 0)
    /\ dev_eval = NoEval
    /\ restarted = FALSE
    /\ obs = <<>>
    /\ ref = <<>>
    /\ replayed = <<>>

Init == Start(0..MaxGpus, 1..MaxPrintStep)

\* ------------------------------------------------- run observations ----
\* What a run looks like when a boundary is over: the rate, the count and
\* the optimizer the next epoch trains with, whether the loop was left, and
\* the dev error rate the boundary was given.
Observation(stop) ==
    [lr |-> learning_rate, count |-> not_improved_epoch, opt |-> optimizer,
     stop |-> stop, dev |-> ErrorRate(config.label_type, dev_eval)]

Log(stop) ==
    /\ obs' = IF saved # NoCheckpoint THEN Append(obs, Observation(stop)) ELSE obs
    /\ replayed' = IF Len(replayed) < Len(ref)
                     THEN Append(replayed, Observation(stop))
                     ELSE replayed

\* ----------------------------------------------------------- actions ----
Outcomes == {"ok", "raise"}

\* what the Updater does with a training batch: returns a finite loss,
\* meets a non-finite loss, or raises for another reason
UpdateOutcomes == {"ok", "nonfinite", "raise"}

\* Updater.__call__: a non-finite training loss is a fatal error
UpdaterRaises(out) == out \in {"nonfinite", "raise"}

\* lines 304-341: one training update, with the report of lines 310-340
\* when the step test on line 310 holds
TrainStep ==
    /\ pc = "train"
    /\ \E src \in Outcomes, new \in BOOLEAN, upd \in UpdateOutcomes,
          dev \in Outcomes :
         /\ (batches + 1 = MaxBatches) => new
         /\ IF src = "raise"
              THEN /\ pc' = AfterCall(TRUE, "train")
                   /\ error' = "batch_source"
                   /\ UNCHANGED <<is_new_epoch, step, batches, accumulated,
                                  reported>>
              ELSE /\ is_new_epoch' = new
                   /\ IF UpdaterRaises(upd)
                        THEN /\ pc' = AfterCall(TRUE, "train")
                             /\ error' = IF upd = "nonfinite" THEN "divergence"
                                                              ELSE "updater"
                             /\ UNCHANGED <<step, batches, accumulated,
                                            reported>>
                        ELSE IF print_step = 0
                        THEN /\ pc' = AfterCall(TRUE, "train")   \* ZeroDivisionError
                             /\ error' = "print_step"
                             /\ accumulated' = accumulated + 1
                             /\ UNCHANGED <<step, batches, reported>>
                        ELSE IF ReportNow(step, print_step) /\ dev = "raise"
                        THEN /\ pc' = AfterCall(TRUE, "train")
                             /\ error' = "dev_batch"
                             /\ accumulated' = accumulated + 1
                             /\ UNCHANGED <<step, batches, reported>>
                        ELSE /\ pc' = AfterCall(FALSE, IF new THEN "epoch" ELSE "train")
                             /\ reported' = ReportNow(step, print_step)
                             /\ accumulated' = IF ReportNow(step, print_step)
                                                 THEN 0 ELSE accumulated + 1
                             /\ step' = NextStep(step, ngpus)
                             /\ batches' = IF new THEN 0 ELSE batches + 1
                             /\ UNCHANGED error
    /\ UNCHANGED <<config, ngpus, print_step, n_convert, sgd_init, decay_call, restarted, obs, ref, replayed, epoch, learning_rate, metric_dev_best,
                   not_improved_epoch, metric_dev, optimizer, lr_controller,
                   saved, complete, exit_by, n_saved, n_saved_boundary,
                   n_decay, n_test, entry, dev_eval>>

\* lines 344-357: the epoch boundary; during warm-up it only saves
EpochBoundary ==
    /\ pc = "epoch"
    /\ entry' = Snapshot(metric_dev_best, learning_rate, optimizer,
                          not_improved_epoch)
    /\ IF InWarmup(epoch, config)
         THEN \E out \in Outcomes :
                /\ pc' = AfterCall(out = "raise", "epoch_end")
                /\ IF out = "raise"
                     THEN /\ error' = "save_checkpoint"
                          /\ UNCHANGED <<saved, n_saved, n_saved_boundary, obs>>
                     ELSE /\ saved' = Checkpoint(epoch, step, learning_rate,
                                                 metric_dev_best)
                          /\ n_saved' = n_saved + 1
                          /\ n_saved_boundary' = n_saved_boundary + 1
                          /\ obs' = <<>>
                          /\ UNCHANGED error
         ELSE /\ pc' = "eval_dev"
              /\ UNCHANGED <<error, saved, n_saved, n_saved_boundary, obs>>
    /\ UNCHANGED <<config, ngpus, print_step, n_convert, sgd_init, decay_call, accumulated, reported, restarted, ref, replayed, epoch, step, learning_rate, metric_dev_best,
                   not_improved_epoch, is_new_epoch, metric_dev, optimizer,
                   lr_controller, complete, batches, exit_by, n_decay,
                   n_test, dev_eval>>

\* lines 358-388: evaluate the dev set with the evaluator of the label type
EvalDev ==
    /\ pc = "eval_dev"
    /\ IF IsWord(config.label_type) \/ HasCharacter(config.label_type)
          \/ HasPhone(config.label_type)
         THEN \E out \in Outcomes, ret \in EvalReturns(config.label_type) :
                /\ pc' = AfterCall(out = "raise", "compare")
                /\ IF out = "raise"
                     THEN /\ error' = "evaluator"
                          /\ UNCHANGED <<metric_dev, dev_eval>>
                     ELSE /\ metric_dev' = BindMetricDev(config.label_type, ret,
                                                         metric_dev)
                          /\ dev_eval' = ret
                          /\ UNCHANGED error
         ELSE /\ pc' = AfterCall(TRUE, "compare")      \* raise ValueError
              /\ error' = "label_type"
              /\ UNCHANGED <<metric_dev, dev_eval>>
    /\ UNCHANGED <<config, ngpus, print_step, n_convert, sgd_init, decay_call, accumulated, reported, restarted, obs, ref, replayed, epoch, step, learning_rate, metric_dev_best,
                   not_improved_epoch, is_new_epoch, optimizer, lr_controller,
                   saved, complete, batches, exit_by, n_saved,
                   n_saved_boundary, n_decay, n_test, entry>>

\* lines 390-398 and 431-432: compare with the best score; save on a new best
Compare ==
    /\ pc = "compare"
    /\ IF metric_dev = Unbound
         THEN /\ pc' = AfterCall(TRUE, "early_stop")   \* UnboundLocalError
              /\ error' = "unbound_metric_dev"
              /\ UNCHANGED <<metric_dev_best, not_improved_epoch, saved,
                             n_saved, n_saved_boundary, obs>>
         ELSE IF Improved(metric_dev, metric_dev_best)
         THEN \E out \in Outcomes :
                /\ metric_dev_best' = metric_dev
                /\ not_improved_epoch' = 0
                /\ pc' = AfterCall(out = "raise", "eval_test")
                /\ IF out = "raise"
                     THEN /\ error' = "save_checkpoint"
                          /\ UNCHANGED <<saved, n_saved, n_saved_boundary, obs>>
                     ELSE /\ saved' = Checkpoint(epoch, step, learning_rate,
                                                 metric_dev_best')
                          /\ n_saved' = n_saved + 1
                          /\ n_saved_boundary' = n_saved_boundary + 1
                          /\ obs' = <<>>
                          /\ UNCHANGED error
         ELSE /\ not_improved_epoch' = not_improved_epoch + 1
              /\ pc' = "early_stop"
              /\ UNCHANGED <<metric_dev_best, error, saved, n_saved,
                             n_saved_boundary, obs>>
    /\ UNCHANGED <<config, ngpus, print_step, n_convert, sgd_init, decay_call, accumulated, reported, restarted, ref, replayed, epoch, step, learning_rate, is_new_epoch,
                   metric_dev, optimizer, lr_controller, complete, batches,
                   exit_by, n_decay, n_test, entry, dev_eval>>

\* lines 400-430: on a new best, evaluate every held-out set (report only)
EvalTest ==
    /\ pc = "eval_test"
    /\ \E done \in 0..NumEvalSets :
         /\ n_test' = done
         /\ pc' = AfterCall(done < NumEvalSets, "early_stop")
         /\ error' = IF done < NumEvalSets THEN "evaluator" ELSE error
    /\ UNCHANGED <<config, ngpus, print_step, n_convert, sgd_init, decay_call, accumulated, reported, restarted, obs, ref, replayed, epoch, step, learning_rate, metric_dev_best,
                   not_improved_epoch, is_new_epoch, metric_dev, optimizer,
                   lr_controller, saved, complete, batches, exit_by, n_saved,
                   n_saved_boundary, n_decay, entry, dev_eval>>

\* lines 437-439: early stopping
EarlyStopCheck ==
    /\ pc = "early_stop"
    /\ IF EarlyStop(not_improved_epoch, config)
         THEN pc' = "exited" /\ exit_by' = "early_stop" /\ Log("early_stop")
         ELSE pc' = "decay" /\ UNCHANGED <<exit_by, obs, replayed>>
    /\ UNCHANGED <<config, ngpus, print_step, n_convert, sgd_init, decay_call, accumulated, reported, restarted, ref, epoch, step, learning_rate, metric_dev_best,
                   not_improved_epoch, is_new_epoch, metric_dev, optimizer,
                   lr_controller, saved, complete, batches, error, n_saved,
                   n_saved_boundary, n_decay, n_test, entry,
                   dev_eval>>

\* lines 448-453: update the learning rate
Decay ==
    /\ pc = "decay"
    /\ LET r == DecayLr(lr_controller, learning_rate, epoch, metric_dev, config)
       IN /\ learning_rate' = r.lr
          /\ lr_controller' = r.ctrl
          /\ decay_call' = [epoch |-> epoch, value |-> metric_dev, ret |-> r.lr]
    /\ n_decay' = n_decay + 1
    /\ pc' = "convert"
    /\ UNCHANGED <<config, ngpus, print_step, n_convert, sgd_init, accumulated, reported, restarted, obs, ref, replayed, epoch, step, metric_dev_best,
                   not_improved_epoch, is_new_epoch, metric_dev, optimizer,
                   saved, complete, batches, error, exit_by, n_saved,
                   n_saved_boundary, n_test, entry, dev_eval>>

\* lines 463-477: convert to the fine-tuning stage
Convert ==
    /\ pc = "convert"
    /\ IF ConvertNow(epoch, config)
         THEN /\ optimizer' = "sgd"
              /\ n_convert' = n_convert + 1
              /\ sgd_init' = learning_rate
         ELSE UNCHANGED <<optimizer, n_convert, sgd_init>>
    /\ pc' = "epoch_end"
    /\ UNCHANGED <<config, ngpus, print_step, decay_call, accumulated, reported, restarted, obs, ref, replayed, epoch, step, learning_rate, metric_dev_best,
                   not_improved_epoch, is_new_epoch, metric_dev, lr_controller,
                   saved, complete, batches, error, exit_by, n_saved,
                   n_saved_boundary, n_decay, n_test, entry,
                   dev_eval>>

\* lines 479-486: leave after the last epoch, else go on to the next one
EpochEnd ==
    /\ pc = "epoch_end"
    /\ IF LastEpoch(epoch, config)
         THEN /\ pc' = "exited"
              /\ exit_by' = "num_epoch"
              /\ Log("num_epoch")
              /\ UNCHANGED <<epoch, n_saved_boundary, n_decay, n_test,
                             entry, dev_eval, decay_call>>
         ELSE /\ epoch <= MaxEpoch
              /\ epoch' = epoch + 1
              /\ pc' = "train"
              /\ Log("none")
              /\ n_saved_boundary' = 0
              /\ n_decay' = 0
              /\ n_test' = 0
              /\ entry' = Snapshot(metric_dev_best, learning_rate, optimizer,
                                    not_improved_epoch)
              /\ dev_eval' = NoEval
              /\ decay_call' = NoCall
              /\ UNCHANGED exit_by
    /\ UNCHANGED <<config, ngpus, print_step, n_convert, sgd_init, accumulated, reported, restarted, ref, step, learning_rate, metric_dev_best,
                   not_improved_epoch, is_new_epoch, metric_dev, optimizer,
                   lr_controller, saved, complete, batches, error, n_saved>>

\* lines 488-499: after the loop, write the COMPLETE file
WriteComplete ==
    /\ pc = "exited"
    /\ complete' = complete + 1
    /\ pc' = "done"
    /\ UNCHANGED <<config, ngpus, print_step, n_convert, sgd_init, decay_call, accumulated, reported, restarted, obs, ref, replayed, epoch, step, learning_rate, metric_dev_best,
                   not_improved_epoch, is_new_epoch, metric_dev, optimizer,
                   lr_controller, saved, batches, error, exit_by,
                   n_saved, n_saved_boundary, n_decay, n_test,
                   entry, dev_eval>>

\* Model.load_checkpoint(save_path, epoch=-1, restart=True): the four
\* scalars of the last saved checkpoint, as save_checkpoint stored them
LoadCheckpoint(ckpt) ==
    <<ckpt.epoch, ckpt.step, ckpt.learning_rate, ckpt.metric_dev_best>>

\* lines 223-255 and 275-300: the job is launched again with
\* --saved_model_path after the previous process ended
Restart ==
    /\ pc \in {"aborted", "done"}
    /\ saved # NoCheckpoint
    /\ ~restarted
    /\ LET r == LoadCheckpoint(saved)
       IN /\ epoch' = r[1]
          /\ step' = r[2]
          /\ learning_rate' = r[3]
          /\ metric_dev_best' = r[4]
          /\ lr_controller' = NewController(r[4])
          /\ entry' = Snapshot(r[4], r[3], config.optimizer, 0)
    /\ optimizer' = config.optimizer
    /\ not_improved_epoch' = 0
    /\ pc' = "train"
    /\ is_new_epoch' = FALSE
    /\ metric_dev' = Unbound
    /\ batches' = 0
    /\ complete' = 0
    /\ error' = "none"
    /\ exit_by' = "none"
    /\ n_saved' = 0
    /\ n_saved_boundary' = 0
    /\ n_decay' = 0
    /\ n_test' = 0
    /\ dev_eval' = NoEval
    /\ restarted' = TRUE
    /\ ref' = obs
    /\ LET first == [lr |-> learning_rate', count |-> 0, opt |-> optimizer',
                     stop |-> "none", dev |-> Unbound]
       IN /\ obs' = <<first>>
          /\ replayed' = IF Len(obs) > 0 THEN <<first>> ELSE <<>>
    /\ accumulated' = 0
    /\ reported' = FALSE
    /\ n_convert' = 0
    /\ sgd_init' = Unbound
    /\ decay_call' = NoCall
    /\ UNCHANGED <<config, ngpus, print_step, saved>>

Next ==
    \/ TrainStep
    \/ EpochBoundary
    \/ EvalDev
    \/ Compare
    \/ EvalTest
    \/ EarlyStopCheck
    \/ Decay
    \/ Convert
    \/ EpochEnd
    \/ WriteComplete

Spec == Init /\ [][Next]_vars

\* the same job, relaunched from its last checkpoint after it ended
NextOrRestart ==
    \/ Next
    \/ Restart

RestartSpec == Init /\ [][NextOrRestart]_vars

\* The configurations that differ in what decides when the loop is left:
\* num_epoch, eval_start_epoch, not_improved_patient_epoch and label_type.
\* step and print_step take part in none of the loop's exit tests; the
\* default --ngpus leaves step where it starts.
ExitInit ==
    /\ Init
    /\ ngpus = NgpusDefault
    /\ print_step = 1
    /\ config.convert_to_sgd_epoch = 1
    /\ config.decay_type = "per_epoch"

\* The runs that differ in when lines 310-340 report: one to MaxGpus + 1
\* GPUs, a configured print_step of up to 2 * MaxPrintStep, word labels.
ReportInit ==
    /\ Start(1..(MaxGpus + 1), 1..(2 * MaxPrintStep))
    /\ config.label_type = "word"
    /\ config.convert_to_sgd_epoch = 1
    /\ config.decay_type = "per_epoch"

ReportSpec == ReportInit /\ [][NextOrRestart]_vars

\* the driver is a sequential program: while it can take a step it takes one
FairRestartSpec == ExitInit /\ [][NextOrRestart]_vars /\ WF_vars(Next)

\* ============================================================ claims ====
\* the positions of an evaluated boundary after the comparison on line 390
AfterCompare ==
    /\ epoch >= config.eval_start_epoch
    /\ pc \in {"eval_test", "early_stop", "decay", "convert", "epoch_end",
               "exited", "done"}

\* an epoch boundary that ran to its end
BoundaryOver == pc \in {"epoch_end", "exited", "done"}

\* C1: at every evaluated epoch boundary, a dev metric strictly below the
\* best score held before the boundary resets not_improved_epoch to 0 and
\* becomes the best score; any other dev metric (an equal one too) adds
\* exactly 1 to not_improved_epoch and leaves the best score as it was.
C1_ResetOrIncrement ==
    AfterCompare =>
        IF metric_dev < entry.best
          THEN not_improved_epoch = 0 /\ metric_dev_best = metric_dev
          ELSE /\ not_improved_epoch = entry.count + 1
               /\ metric_dev_best = entry.best

\* C1 witness: a boundary that did not improve (count 1) followed by one
\* that did (count back to 0)
C1_Witness ==
    /\ pc = "early_stop"
    /\ epoch = 2
    /\ entry.count = 1
    /\ metric_dev < entry.best
    /\ not_improved_epoch = 0

\* C2: the loop is left by early stopping exactly when, after the boundary's
\* comparison, not_improved_epoch equals not_improved_patient_epoch; and on
\* that boundary decay_lr is not called, the learning rate is the one the
\* boundary started with and the optimizer is not converted.
C2_EarlyStopRule ==
    /\ [][pc = "early_stop" =>
            ((pc' = "exited" /\ exit_by' = "early_stop")
               <=> not_improved_epoch = config.not_improved_patient_epoch)]_vars
    /\ [][(exit_by' = "early_stop" /\ exit_by # "early_stop")
            => pc = "early_stop"]_vars
    /\ [](exit_by = "early_stop" =>
            /\ n_decay = 0
            /\ learning_rate = entry.lr
            /\ optimizer = entry.opt)

\* C2 witness: early stop on the epoch the conversion to SGD is set for
C2_Witness ==
    /\ pc = "exited"
    /\ exit_by = "early_stop"
    /\ not_improved_epoch = 2
    /\ epoch = config.convert_to_sgd_epoch
    /\ epoch >= config.decay_start_epoch
    /\ optimizer = "adam"

\* C3: a boundary writes a checkpoint exactly when the epoch is before
\* eval_start_epoch, or is evaluated and its dev metric is strictly below
\* the best score; never more than one per boundary; and no checkpoint is
\* written after an update whose is_new_epoch flag is false.
C3_CheckpointTiming ==
    /\ [](n_saved_boundary <= 1)
    /\ [](BoundaryOver =>
            (n_saved_boundary = 1 <=>
               \/ epoch < config.eval_start_epoch
               \/ /\ epoch >= config.eval_start_epoch
                  /\ metric_dev # Unbound
                  /\ metric_dev < entry.best))
    /\ [][saved' # saved \/ n_saved' # n_saved
            => is_new_epoch /\ pc \in {"epoch", "compare"}]_vars

\* C3 witness: an evaluated boundary that did not improve ends without a
\* checkpoint, after a warm-up boundary that wrote one
C3_Witness ==
    /\ pc = "epoch_end"
    /\ epoch = 2
    /\ config.eval_start_epoch = 2
    /\ n_saved = 1
    /\ n_saved_boundary = 0
    /\ metric_dev = entry.best

\* C4: a run restored from a checkpoint and given the same dev metrics goes
\* through the same learning rates, not_improved_epoch values, optimizer
\* stage and stop decisions as the run that wrote the checkpoint went
\* through after writing it.  ref[i] is what the writing run looked like i
\* boundaries after the checkpoint was written (i = 1: when the boundary
\* that wrote it was over), replayed[i] what the restored run looks like at
\* the same distance from its start.
C4_ResumeExact ==
    \A i \in 1..Len(replayed) :
        (/\ i <= Len(ref)
         /\ ref[1].stop = "none"
         /\ \A j \in 2..i : replayed[j].dev = ref[j].dev)
        => /\ replayed[i].lr = ref[i].lr
           /\ replayed[i].count = ref[i].count
           /\ replayed[i].opt = ref[i].opt
           /\ replayed[i].stop = ref[i].stop

\* the positions inside the loop of lines 302-486
InLoop ==
    pc \in {"train", "epoch", "eval_dev", "compare", "eval_test", "early_stop",
            "decay", "convert", "epoch_end"}

\* C5: from a fresh start and from a start restored from a checkpoint, with
\* every epoch delivering is_new_epoch after finitely many updates, the loop
\* is eventually left; it is left by a break only at an epoch boundary, by
\* early stopping or because epoch equals num_epoch; and epoch never
\* exceeds num_epoch.
C5_Termination ==
    /\ [](epoch <= config.num_epoch)
    /\ [](pc \in {"exited", "done"} =>
            /\ is_new_epoch
            /\ \/ exit_by = "early_stop" /\
                  not_improved_epoch = config.not_improved_patient_epoch
               \/ exit_by = "num_epoch" /\ epoch = config.num_epoch)
    /\ (InLoop ~> ~InLoop)

\* C5 witness: a restored run left the loop at num_epoch
C5_Witness ==
    /\ restarted
    /\ pc = "done"
    /\ exit_by = "num_epoch"
    /\ epoch = 2

\* C6 (as claimed): every run that leaves the loop by early stopping or at
\* num_epoch has written the COMPLETE file and, before it, at least one
\* checkpoint.
C6_AlwaysCheckpoint ==
    pc = "done" => complete = 1 /\ n_saved >= 1

\* C6 (amended): every run that leaves the loop by early stopping or at
\* num_epoch writes the COMPLETE file; it has written a checkpoint before
\* it exactly when it passed a warm-up boundary or one of its dev metrics
\* was strictly below the best score (100 at first).
C6_MarkerAndCheckpoint ==
    pc = "done" =>
        /\ complete = 1
        /\ exit_by \in {"early_stop", "num_epoch"}
        /\ (n_saved >= 1 <=>
              (\/ config.eval_start_epoch > EpochInit
               \/ metric_dev_best < MetricDevBestInit))

\* C6 witness: a run that stopped early, wrote COMPLETE and no checkpoint
C6_Witness ==
    /\ pc = "done"
    /\ exit_by = "early_stop"
    /\ complete = 1
    /\ n_saved = 0
    /\ saved = NoCheckpoint

\* what the Batch Source, the Update Step, the Metric Evaluator and the
\* checkpoint write leave in error when they raise
CollaboratorErrors ==
    {"batch_source", "updater", "divergence", "evaluator", "save_checkpoint"}

\* C7: the COMPLETE file is written at most once and only after the loop
\* was left by early stopping or at num_epoch; once a collaborator has
\* raised, the run never writes COMPLETE and writes no further checkpoint.
C7_MarkerOnlyAfterSuccess ==
    /\ [](complete <= 1)
    /\ [](complete = 1 =>
            /\ pc = "done"
            /\ error = "none"
            /\ exit_by \in {"early_stop", "num_epoch"})
    /\ [](error \in CollaboratorErrors => complete = 0)
    /\ [][(error \in CollaboratorErrors) =>
            (saved' = saved /\ n_saved' = n_saved /\ complete' = complete)]_vars
    /\ [][(error' \in CollaboratorErrors /\ error = "none") =>
            (saved' = saved /\ n_saved' = n_saved)]_vars

\* C7 witness: the second checkpoint write raised; the first checkpoint is
\* still the saved one and COMPLETE was not written
C7_Witness ==
    /\ pc = "aborted"
    /\ error = "save_checkpoint"
    /\ epoch = 2
    /\ n_saved = 1
    /\ saved.epoch = 1
    /\ complete = 0

C9_ComparesThisEvaluation ==
    pc = "compare" =>
        /\ metric_dev # Unbound
        /\ metric_dev = ErrorRate(config.label_type, dev_eval)

\* C10: every training update adds ngpus to step and makes it strictly
\* larger, for every --ngpus value including the default 0; every boundary
\* that does not end the run makes epoch strictly larger.
C10_StepAndEpochIncrease ==
    /\ [][(pc = "train" /\ pc' \in {"train", "epoch"}) =>
            (step' = step + ngpus /\ step' > step)]_vars
    /\ [][(pc = "epoch_end" /\ pc' = "train") => epoch' > epoch]_vars

\* C11: every checkpoint write stores the driver's epoch, step,
\* learning_rate and metric_dev_best as they are at that moment: the epoch
\* just completed (epoch is advanced later, on line 486), the step that
\* line 341 has already advanced for the update that closed the epoch, the
\* best score with this boundary's improvement in it when there is one,
\* and the rate the boundary started with (decay_lr has not been called).
C11_CheckpointMatchesState ==
    /\ [][(n_saved' = n_saved + 1) =>
            (/\ saved' = [epoch |-> epoch, step |-> step,
                          learning_rate |-> learning_rate,
                          metric_dev_best |-> metric_dev_best']
             /\ epoch' = epoch /\ step' = step
             /\ learning_rate' = learning_rate
             /\ learning_rate = entry'.lr
             /\ n_decay = 0
             /\ is_new_epoch
             /\ (pc = "compare" =>
                   (metric_dev < metric_dev_best /\ saved'.metric_dev_best = metric_dev))
             /\ (pc = "epoch" => metric_dev_best' = metric_dev_best))]_vars
    /\ [][(pc = "train" /\ pc' = "epoch") => step' = step + ngpus]_vars
    /\ [][(pc \in {"epoch", "eval_dev", "compare"}) =>
            (step' = step /\ epoch' = epoch /\ learning_rate' = learning_rate)]_vars
    /\ [][(pc = "epoch_end" /\ pc' = "train") => epoch' = epoch + 1]_vars

\* C11 witness: the second boundary improved and saved; its checkpoint holds
\* epoch 2, the advanced step, the new best score and the rate from before
\* this boundary's decay
C11_Witness ==
    /\ pc = "epoch_end"
    /\ epoch = 2
    /\ n_saved_boundary = 1
    /\ saved.epoch = 2
    /\ saved.step = step /\ step = 2 * MaxBatches
    /\ saved.metric_dev_best = metric_dev /\ metric_dev < entry.best
    /\ saved.learning_rate = entry.lr
    /\ learning_rate < saved.learning_rate

\* C12: for every --ngpus >= 1, an update runs the dev batch and the
\* progress report exactly when step, after line 341 has added ngpus to
\* it, is a multiple of print_step (as line 93 left it).
C12_ReportAtMultiples ==
    [][(pc = "train" /\ pc' \in {"train", "epoch"} /\ ngpus >= 1) =>
         (reported' <=> step' % print_step = 0)]_vars

\* C13: at every progress report the number of updates added to
\* loss_train_mean and acc_train_mean since they were last zero (or since
\* the run started, fresh or from a checkpoint) is the divisor print_step,
\* and the report leaves the sums at zero.
C13_MeanOverInterval ==
    [][(pc = "train" /\ pc' \in {"train", "epoch"} /\ reported') =>
         (accumulated + 1 = print_step /\ accumulated' = 0)]_vars

\* the positions of lines 358-477, the evaluated part of a boundary
Evaluating ==
    pc \in {"eval_dev", "compare", "eval_test", "early_stop", "decay", "convert"}

\* C14: a boundary with epoch < eval_start_epoch writes a checkpoint and
\* runs nothing else of the boundary: no dev or held-out evaluation, no
\* decay_lr call, no conversion to SGD (also when epoch equals
\* convert_to_sgd_epoch), no early-stop test; the best score, the
\* not-improved count and the learning rate stay as they were.
C14_WarmupOnlySaves ==
    /\ [](Evaluating => epoch >= config.eval_start_epoch)
    /\ []((BoundaryOver /\ epoch < config.eval_start_epoch) =>
            /\ n_saved_boundary = 1
            /\ saved = [epoch |-> epoch, step |-> step,
                        learning_rate |-> entry.lr,
                        metric_dev_best |-> entry.best]
            /\ dev_eval = NoEval
            /\ n_test = 0
            /\ n_decay = 0 /\ decay_call = NoCall
            /\ n_convert = 0 /\ optimizer = entry.opt
            /\ exit_by # "early_stop"
            /\ metric_dev_best = entry.best
            /\ not_improved_epoch = entry.count
            /\ learning_rate = entry.lr)
    /\ [][(pc = "epoch" /\ epoch < config.eval_start_epoch) =>
            (/\ pc' \in {"epoch_end", "aborted"}
             /\ metric_dev_best' = metric_dev_best
             /\ not_improved_epoch' = not_improved_epoch
             /\ learning_rate' = learning_rate
             /\ optimizer' = optimizer
             /\ lr_controller' = lr_controller)]_vars

\* C14 witness: the warm-up boundary of the epoch the conversion to SGD is
\* set for saved and left the optimizer as it was
C14_Witness ==
    /\ pc = "epoch_end"
    /\ epoch = 1
    /\ config.eval_start_epoch = 2
    /\ config.convert_to_sgd_epoch = 1
    /\ n_saved_boundary = 1
    /\ optimizer = "adam"
    /\ n_convert = 0

\* C15: one run calls set_optimizer('sgd', ...) at most once, and only at
\* the boundary whose epoch equals convert_to_sgd_epoch, when that epoch is
\* evaluated and early stopping has not fired; the call is given the rate
\* this boundary's decay_lr call returned, and it comes after the
\* boundary's checkpoint write: the checkpoint of that boundary, when there
\* is one, was written with the optimizer still unconverted.
C15_ConvertOnce ==
    /\ [](n_convert <= 1)
    /\ [][(n_convert' # n_convert \/ optimizer' # optimizer) =>
            (/\ pc = "convert"
             /\ n_convert = 0 /\ n_convert' = 1
             /\ optimizer' = "sgd"
             /\ epoch = config.convert_to_sgd_epoch
             /\ epoch >= config.eval_start_epoch
             /\ exit_by = "none"
             /\ ~(not_improved_epoch = config.not_improved_patient_epoch)
             /\ n_decay = 1
             /\ decay_call.epoch = epoch
             /\ sgd_init' = decay_call.ret
             /\ saved' = saved /\ n_saved' = n_saved)]_vars
    /\ [][(n_saved' # n_saved) =>
            (optimizer = entry'.opt /\ n_convert' = n_convert /\
             (n_convert = 1 => epoch > config.convert_to_sgd_epoch))]_vars

\* C15 witness: the run converted at epoch 1, after that boundary's
\* checkpoint and with the decayed rate, and a later evaluated boundary
\* left the conversion count at one
C15_Witness ==
    /\ pc = "epoch_end"
    /\ epoch = 2
    /\ config.convert_to_sgd_epoch = 1
    /\ config.eval_start_epoch = 1
    /\ n_convert = 1
    /\ optimizer = "sgd"
    /\ saved.epoch = 1
    /\ sgd_init < saved.learning_rate
    /\ n_decay = 1

\* a label type that is not 'word' and has neither 'character' nor 'phone'
\* in it
Unrecognized(label) ==
    label \notin {"word", "character", "character_capital_divide", "phone",
                  "phone61"}

\* C16: with an unrecognized label_type the first boundary with
\* epoch >= eval_start_epoch aborts the run with the ValueError of line
\* 388: that boundary writes no checkpoint, leaves the best score, the
\* not-improved count and the learning rate as they were, and COMPLETE is
\* never written.
C16_UnrecognizedLabelAborts ==
    /\ [][(pc = "eval_dev" /\ Unrecognized(config.label_type)) =>
            (/\ pc' = "aborted" /\ error' = "label_type"
             /\ saved' = saved /\ n_saved' = n_saved
             /\ metric_dev_best' = metric_dev_best
             /\ not_improved_epoch' = not_improved_epoch
             /\ learning_rate' = learning_rate
             /\ complete' = 0)]_vars
    /\ []((Unrecognized(config.label_type) /\ epoch >= config.eval_start_epoch)
            => /\ pc \in {"train", "epoch", "eval_dev", "aborted"}
               /\ complete = 0)
    /\ []((Unrecognized(config.label_type) /\ error = "label_type") =>
            /\ pc = "aborted"
            /\ epoch >= config.eval_start_epoch
            /\ n_saved_boundary = 0
            /\ n_saved = epoch - EpochInit
            /\ metric_dev_best = MetricDevBestInit
            /\ not_improved_epoch = 0
            /\ learning_rate = LearningRateInit
            /\ complete = 0)

\* C16 witness: after one warm-up boundary, the first evaluated boundary
\* met the unrecognized label type
C16_Witness ==
    /\ config.label_type = "kanji"
    /\ config.eval_start_epoch = 2
    /\ epoch = 2
    /\ pc = "aborted"
    /\ error = "label_type"
    /\ saved.epoch = 1
    /\ complete = 0

\* C17: the held-out sets are evaluated at a boundary exactly when the
\* boundary recorded a new best dev score; then every one of them is
\* evaluated once, after the boundary's checkpoint was written; these
\* evaluations write no checkpoint and leave epoch, step, learning_rate,
\* metric_dev_best and not_improved_epoch as they were.
C17_HeldOutOnNewBest ==
    /\ []((BoundaryOver /\ epoch >= config.eval_start_epoch) =>
            /\ n_test \in {0, NumEvalSets}
            /\ (n_test = NumEvalSets <=> metric_dev < entry.best)
            /\ (n_test = NumEvalSets <=>
                  (metric_dev_best = metric_dev /\ metric_dev_best < entry.best)))
    /\ [](pc = "eval_test" =>
            /\ n_saved_boundary = 1
            /\ saved.epoch = epoch
            /\ saved.metric_dev_best = metric_dev_best
            /\ metric_dev_best < entry.best)
    /\ [][(n_test' > n_test) => (pc = "eval_test" /\ n_test = 0)]_vars
    /\ [][(pc = "eval_test") =>
            (/\ saved' = saved /\ n_saved' = n_saved
             /\ epoch' = epoch /\ step' = step
             /\ learning_rate' = learning_rate
             /\ metric_dev_best' = metric_dev_best
             /\ not_improved_epoch' = not_improved_epoch)]_vars

\* C17 witness: the first boundary did not improve and evaluated no
\* held-out set; the second one improved, saved and evaluated them all
C17_Witness ==
    /\ pc = "early_stop"
    /\ epoch = 2
    /\ entry.count = 1
    /\ entry.best = MetricDevBestInit
    /\ metric_dev_best < MetricDevBestInit
    /\ n_saved = 1 /\ n_saved_boundary = 1
    /\ n_test = NumEvalSets

\* C18: learning_rate changes only on line 449: every evaluated boundary
\* at which early stopping does not fire, the boundary of the last epoch
\* included, calls decay_lr exactly once, with the boundary's epoch and
\* metric_dev, and learning_rate becomes what the call returns; a training
\* update, a progress report, a warm-up boundary, a checkpoint write and
\* the conversion to SGD leave learning_rate as it was.
C18_RateOnlyByController ==
    /\ [][(learning_rate' # learning_rate) => pc = "decay"]_vars
    /\ [][(pc = "decay") =>
            (/\ n_decay = 0 /\ n_decay' = 1
             /\ learning_rate' =
                  DecayLr(lr_controller, learning_rate, epoch, metric_dev, config).lr
             /\ decay_call' = [epoch |-> epoch, value |-> metric_dev,
                               ret |-> learning_rate'])]_vars
    /\ [](n_decay <= 1)
    /\ []((BoundaryOver /\ epoch >= config.eval_start_epoch
            /\ exit_by # "early_stop") =>
            /\ n_decay = 1
            /\ decay_call.epoch = epoch
            /\ decay_call.value = metric_dev
            /\ metric_dev = ErrorRate(config.label_type, dev_eval)
            /\ learning_rate = decay_call.ret)
    /\ []((BoundaryOver /\ epoch < config.eval_start_epoch) =>
            (n_decay = 0 /\ learning_rate = entry.lr))

\* C18 witness: the boundary of the last epoch called decay_lr, which
\* lowered the rate, and a progress report had been made on the way
C18_Witness ==
    /\ pc = "exited"
    /\ exit_by = "num_epoch"
    /\ epoch = 2
    /\ reported
    /\ n_decay = 1
    /\ decay_call.epoch = 2
    /\ learning_rate = decay_call.ret
    /\ learning_rate < entry.lr

\* C19: with not_improved_patient_epoch >= 1 the boundary at which early
\* stopping fires did not improve: it wrote no checkpoint and evaluated no
\* held-out set, and the last checkpoint, when there is one, stores the
\* best score the driver holds when it leaves the loop.
C19_EarlyStopNotImproved ==
    (exit_by = "early_stop" /\ config.not_improved_patient_epoch >= 1) =>
        /\ metric_dev >= entry.best
        /\ metric_dev_best = entry.best
        /\ not_improved_epoch = entry.count + 1
        /\ n_saved_boundary = 0
        /\ n_test = 0
        /\ (saved # NoCheckpoint =>
              (saved.metric_dev_best = metric_dev_best /\ saved.epoch < epoch))

\* C19 witness: epoch 1 improved and saved, epoch 2 did not improve and
\* stopped the run with patience 1
C19_Witness ==
    /\ pc = "exited"
    /\ exit_by = "early_stop"
    /\ config.not_improved_patient_epoch = 1
    /\ epoch = 2
    /\ saved.epoch = 1
    /\ saved.metric_dev_best = metric_dev_best
    /\ metric_dev_best < MetricDevBestInit
    /\ metric_dev >= metric_dev_best
    /\ n_saved = 1

\* C20: in every state of a run, for every not_improved_patient_epoch
\* (0 included), not_improved_epoch is between 0 and the threshold: a run
\* never passes the threshold without stopping.
C20_CountWithinPatience ==
    /\ 0 <= not_improved_epoch
    /\ not_improved_epoch <= config.not_improved_patient_epoch

\* C21: metric_dev_best never increases within a run: it starts at 100 on
\* a fresh start and at the restored value on a restart, every comparison
\* of line 390 leaves it at the smaller of its old value and the
\* boundary's metric_dev, and nothing else changes it, so it is the
\* minimum of its initial value and the dev metrics compared so far; a
\* checkpoint written at an evaluated epoch stores that epoch's metric_dev
\* as the best score.
C21_BestIsMinimum ==
    /\ []((~restarted /\ pc = "train" /\ epoch = EpochInit) =>
            metric_dev_best = MetricDevBestInit)
    /\ [][(restarted' /\ ~restarted) =>
            metric_dev_best' = saved.metric_dev_best]_vars
    /\ [][(restarted' = restarted) => metric_dev_best' <= metric_dev_best]_vars
    /\ [][(metric_dev_best' # metric_dev_best) =>
            (pc = "compare" \/ (restarted' /\ ~restarted))]_vars
    /\ [][(pc = "compare" /\ metric_dev # Unbound) =>
            (metric_dev_best' = IF metric_dev < metric_dev_best
                                  THEN metric_dev ELSE metric_dev_best)]_vars
    /\ [](AfterCompare =>
            /\ metric_dev = ErrorRate(config.label_type, dev_eval)
            /\ metric_dev_best = IF metric_dev < entry.best
                                   THEN metric_dev ELSE entry.best)
    /\ [][(pc = "compare" /\ n_saved' = n_saved + 1) =>
            (/\ saved'.metric_dev_best = metric_dev
             /\ saved'.metric_dev_best = metric_dev_best'
             /\ saved'.epoch = epoch)]_vars

\* C21 witness: a run restored from a checkpoint whose best score was
\* already below 100 met a still lower dev metric and saved it
C21_Witness ==
    /\ restarted
    /\ pc = "epoch_end"
    /\ entry.best < MetricDevBestInit
    /\ metric_dev < entry.best
    /\ metric_dev_best = metric_dev
    /\ saved.metric_dev_best = metric_dev
    /\ saved.epoch = epoch
    /\ n_saved = 1

====
